---- MODULE Spec2Model ----
(***************************************************************************)
(* Model of general.py: the batch image renamer.  A user-interface thread  *)
(* (ImageRenamerApp) edits the API key and starts worker threads; a worker *)
(* runs rename_images_in_directory over a directory of files: it scans,    *)
(* sends the eligible files to the remote model in batches, renames them   *)
(* with conflict resolution, then retries every failed file on its own     *)
(* (retry_failed_file) and prints the final summary.                       *)
(*                                                                         *)
(* File names and titles are sequences of one-character strings, so that   *)
(* the eligibility test, the sanitisation of a title and the building of   *)
(* a new name are computed character by character as the code does.        *)
(***************************************************************************)
EXTENDS Integers, Sequences, FiniteSets, TLC

(***************************************************************************)
(* Characters and strings                                                  *)
(***************************************************************************)

\* The characters the model uses, in increasing code-point order (the order
\* sorted() compares by).
AsciiOrder ==
  << "\t", " ", "!", "-", ".", "0", "1", "2", "3", "4", "5", "6", "7", "8", "9",
     "C", "D", "E", "G", "J", "P", "S", "_",
     "a", "b", "c", "d", "e", "g", "j", "m", "n", "p", "r", "s", "t", "x", "y" >>

Chars == { AsciiOrder[i] : i \in 1..Len(AsciiOrder) }

ord(c) == CHOOSE i \in 1..Len(AsciiOrder) : AsciiOrder[i] = c

DigitChars == << "0", "1", "2", "3", "4", "5", "6", "7", "8", "9" >>

\* \w of the re module: letters, digits and the underscore.
IsWordChar(c) ==
  c \in { "0", "1", "2", "3", "4", "5", "6", "7", "8", "9",
          "C", "D", "E", "G", "J", "P", "S", "_",
          "a", "b", "c", "d", "e", "g", "j", "m", "n", "p", "r", "s", "t", "x", "y" }

\* \s of the re module, and the characters str.strip() removes.
IsSpaceChar(c) == c \in { "\t", " " }

\* str.lower(), one character.
LowerChar(c) ==
  CASE c = "C" -> "c"
    [] c = "D" -> "d"
    [] c = "E" -> "e"
    [] c = "G" -> "g"
    [] c = "J" -> "j"
    [] c = "P" -> "p"
    [] c = "S" -> "s"
    [] OTHER -> c

lower(s) == [ i \in 1..Len(s) |-> LowerChar(s[i]) ]

\* s.endswith(suffix)
endswith(s, suffix) ==
  /\ Len(suffix) <= Len(s)
  /\ SubSeq(s, Len(s) - Len(suffix) + 1, Len(s)) = suffix

\* sub in s
contains(s, sub) ==
  \E i \in 1..(Len(s) - Len(sub) + 1) : SubSeq(s, i, i + Len(sub) - 1) = sub

\* s < t as Python compares two strings: by the first differing character,
\* a proper prefix first.
StrLess(s, t) ==
  \E i \in 1..(Len(t)) :
    /\ \A j \in 1..(i - 1) : j <= Len(s) /\ s[j] = t[j]
    /\ \/ i = Len(s) + 1
       \/ i <= Len(s) /\ ord(s[i]) < ord(t[i])

\* str(n) for n >= 0.
RECURSIVE str(_)
str(n) == IF n < 10 THEN << DigitChars[n + 1] >>
          ELSE str(n \div 10) \o << DigitChars[(n % 10) + 1] >>

\* os.path.splitext(name)[1]: from the last dot on, unless that dot only
\* follows dots (a leading dot starts no extension).
splitext_ext(name) ==
  LET dots == { i \in 1..Len(name) : name[i] = "." } IN
  IF dots = {} THEN << >>
  ELSE LET last == CHOOSE i \in dots : \A j \in dots : j <= i IN
       IF \E j \in 1..(last - 1) : name[j] # "."
       THEN SubSeq(name, last, Len(name))
       ELSE << >>

(***************************************************************************)
(* Configuration of general.py                                             *)
(***************************************************************************)

IMAGE_EXTENSIONS ==
  { << ".", "p", "n", "g" >>, << ".", "j", "p", "g" >>,
    << ".", "j", "p", "e", "g" >>, << ".", "w", "e", "b", "p" >> }

PROCESSED_SUFFIX == << "_", "D", "E", "S", "C" >>

\* BATCH_SIZE is 10 in the source; the model runs the same loop on a smaller
\* batch so that several batches fit a small directory.
BATCH_SIZE == 2

MAX_RETRIES == 3

(***************************************************************************)
(* The naming sanitizer and the names the code builds                      *)
(***************************************************************************)

\* re.sub(r'[^\w\s-]', '', title): drops every character that is neither a
\* word character, nor whitespace, nor a hyphen.
re_sub(title) ==
  SelectSeq(title, LAMBDA c : IsWordChar(c) \/ IsSpaceChar(c) \/ c = "-")

\* str.strip(): drops leading and trailing whitespace.
strip(s) ==
  LET keep == { i \in 1..Len(s) : ~IsSpaceChar(s[i]) } IN
  IF keep = {} THEN << >>
  ELSE LET lo == CHOOSE i \in keep : \A j \in keep : i <= j
           hi == CHOOSE i \in keep : \A j \in keep : j <= i
       IN SubSeq(s, lo, hi)

\* str.replace(old, new) for single characters.
replace(s, old, new) == [ i \in 1..Len(s) |-> IF s[i] = old THEN new ELSE s[i] ]

\* A bug cleaned_title could have: strip() applied to the title before the
\* substitution instead of to its result.
cleaned_title_strip_first(short_title) ==
  replace(replace(re_sub(strip(short_title)), " ", "_"), "-", "_")

\* re.sub(...).strip().replace(' ', '_').replace('-', '_')
cleaned_title(short_title) ==
  replace(replace(strip(re_sub(short_title)), " ", "_"), "-", "_")

\* f"{cleaned_title}{PROCESSED_SUFFIX}"
new_base_name(short_title) == cleaned_title(short_title) \o PROCESSED_SUFFIX

\* f"{new_base_name}{ext}", the first candidate of the conflict resolution.
first_filename(short_title, ext) == new_base_name(short_title) \o ext

\* f"{new_base_name}_{counter}{ext}", the candidate built in the while loop.
counter_filename(base, counter, ext) == base \o << "_" >> \o str(counter) \o ext

\* uuid.uuid4().hex[:8]: eight random hexadecimal digits in the source; the
\* model draws the identifier from NumTempIds one-digit identifiers.
NumTempIds == 2

TempIds == { << DigitChars[i] >> : i \in 1..NumTempIds }

TEMP_PREFIX == << "t", "e", "m", "p", "_", "r", "e", "t", "r", "y", "_" >>

\* f"temp_retry_{temp_unique_id}{ext}"
temp_filename(temp_unique_id, ext) == TEMP_PREFIX \o temp_unique_id \o ext

\* f.lower().endswith(IMAGE_EXTENSIONS) and PROCESSED_SUFFIX not in f
IsEligible(f) ==
  /\ \E e \in IMAGE_EXTENSIONS : endswith(lower(f), e)
  /\ ~contains(f, PROCESSED_SUFFIX)

(***************************************************************************)
(* The directory: a function from the names present to the files' identity *)
(***************************************************************************)

exists(d, name) == name \in DOMAIN d

\* The directory after a successful os.rename(src, dst): src is gone and dst
\* names the file src named (a file dst named before is replaced).
Renamed(d, src, dst) ==
  [ n \in (DOMAIN d \ {src}) \cup {dst} |-> IF n = dst THEN d[src] ELSE d[n] ]

\* The outcomes of os.rename(src, dst).  It raises OSError when src is missing,
\* leaving the directory as it is; otherwise it succeeds, or raises when the
\* environment fails (no permission, name too long, ...; on Windows also when
\* dst exists, where POSIX replaces dst): env_fails tells whether the
\* environment may fail.
os_rename(d, src, dst, env_fails) ==
  (IF exists(d, src) THEN { [ ok |-> TRUE, dir |-> Renamed(d, src, dst) ] } ELSE {})
    \cup (IF env_fails \/ ~exists(d, src) THEN { [ ok |-> FALSE, dir |-> d ] } ELSE {})

\* The outcomes of Image.open(path): it raises when the file is missing, and
\* on an existing file when the environment fails (not an image, unreadable).
Image_open(d, name, env_fails) ==
  (IF exists(d, name) THEN { TRUE } ELSE {})
    \cup (IF env_fails \/ ~exists(d, name) THEN { FALSE } ELSE {})

\* The files (identities) a directory holds.
Files(d) == { d[n] : n \in DOMAIN d }

(***************************************************************************)
(* Bounds of the model                                                     *)
(***************************************************************************)

\* The threads start_processing can create: one per press of the button.
MaxThreads == 2

Threads == 1..MaxThreads

\* The largest number of eligible files in the directory at the start.
MaxEligible == 3

(***************************************************************************)
(* The names and titles of the model's runs                                *)
(***************************************************************************)

A_JPG == << "a", ".", "j", "p", "g" >>
B_JPG == << "b", ".", "j", "p", "g" >>
C_UPPER_JPG == << "c", ".", "J", "P", "G" >>
D_JPG == << "d", ".", "j", "p", "g" >>
NOTES_TXT == << "n", ".", "t", "x", "t" >>

\* "r s" and "r-s" are different titles with the same sanitized form; "!" is
\* a title of punctuation only; the empty title.
RED_SUNSET == << "r", " ", "s" >>
RED_HYPHEN_SUNSET == << "r", "-", "s" >>
BANG == << "!" >>
EMPTY == << >>

Titles == { RED_SUNSET, RED_HYPHEN_SUNSET, BANG, EMPTY }

\* A file already renamed by an earlier run.
OLD_DESC_JPG == first_filename(RED_SUNSET, << ".", "j", "p", "g" >>)

\* An original_filename of a response that names no file of the batch.
FOREIGN_NAME == << "x", ".", "j", "p", "g" >>

\* The eligible names a directory may hold at the start, in the order in
\* which directories grow with MaxEligible.
EligiblePool == << A_JPG, B_JPG, C_UPPER_JPG, D_JPG >>

\* The names of the other files a directory may hold at the start.
OtherPool == { NOTES_TXT, OLD_DESC_JPG }

\* The directories of the model: the first n eligible names, n up to
\* MaxEligible, alone or with the other files; every file has its own identity.
InitialNames ==
  { { EligiblePool[i] : i \in 1..n } \cup o :
      n \in 0..MaxEligible, o \in { {}, OtherPool } }

\* All orders of a finite set of names (os.listdir returns an arbitrary order).
RECURSIVE Perms(_)
Perms(S) ==
  IF S = {} THEN { << >> }
  ELSE UNION { { << x >> \o p : p \in Perms(S \ {x}) } : x \in S }

\* The identities given to the files of an initial directory.
Identify(names) ==
  CHOOSE d \in [ names -> 1..Cardinality(names) ] :
    \A m, n \in names : m # n => d[m] # d[n]

(***************************************************************************)
(* State                                                                   *)
(***************************************************************************)

VARIABLES
  dir,            \* the target directory: name -> file identity
  dir0,           \* the directory when the program started (never changes)
  gemini_client,  \* the global client: "None" or "client"
  start_button,   \* the state of the start button: "normal" or "disabled"
  ui_pc,          \* "idle", or "creating": update_client has set the client
                  \* to None and has yet to run genai.Client(...)
  after_pending,  \* callbacks queued by self.after(0, ...), not yet run
  use_delay_var,  \* the checkbox of the pause between batches
  env,            \* the environment of the run (never changes):
                  \*   faults: whether the file system, PIL and the remote
                  \*     service may fail where the state does not force it
                  \*     (an error raised, a file left out of a response);
                  \*   titles: the titles the remote model answers with;
                  \*   temp_ids: the identifiers uuid4 draws from;
                  \*   history: whether the files sent in batch requests
                  \*     are recorded (batch_submitted)
  wk,             \* per thread: the locals of rename_images_in_directory and
                  \* of the functions it calls, and the thread's position
  san             \* the sanitizer on its own: a title, and the results of
                  \* applying the sanitization step to it once and twice

vars == << dir, dir0, gemini_client, start_button, ui_pc, after_pending,
          use_delay_var, env, wk, san >>

\* A thread that has not been started.
NotStarted ==
  [ pc |-> "idle",
    use_delay |-> FALSE,
    all_files |-> << >>,
    total_eligible_files |-> 0,
    batch_processed_count |-> 0,
    file_index |-> 0,
    failed_files_for_retry |-> << >>,
    i |-> 0,                        \* position of the running for loop
    image_batch |-> << >>,
    retries |-> 0,
    response |-> "",                \* the response in hand: "", "valid", "malformed"
    result_map |-> {},              \* the filenames result_map has a title for
    ext |-> << >>,
    new_base_name |-> << >>,
    new_filename |-> << >>,
    counter |-> 0,
    unique_failed_files |-> << >>,
    retry_processed_count |-> 0,
    temp_filename |-> << >>,
    total_renamed |-> 0,
    total_failed |-> 0,
    \* history, not program state: the values of file_index of the batches
    \* that failed as a whole, the files sent in a batch request, the files
    \* retry_failed_file was called on, the files each phase has renamed, and
    \* of the last recovery flow: its file, the identity of the file it moved
    \* to the temporary name (0: none) and how it ended ("": it has not)
    failed_batches |-> {},
    batch_submitted |-> {},
    flow_started |-> {},
    renamed_by_batch |-> {},
    renamed_by_retry |-> {},
    flow_file |-> << >>,
    isolated |-> 0,
    report |-> "" ]

\* The sanitizer has been given no title.
NoTitle == [ stage |-> 0, title |-> << >>, once |-> << >>, twice |-> << >> ]

\* __init__ and setup_ui: the checkbox is set (its default), the first
\* update_client() runs on the saved key before any event; no thread exists.
Init ==
  /\ \E names \in InitialNames : dir = Identify(names)
  /\ dir0 = dir
  /\ \/ gemini_client = "None" /\ start_button = "disabled"
     \/ gemini_client = "client" /\ start_button = "normal"
  /\ ui_pc = "idle"
  /\ after_pending = 0
  /\ use_delay_var = TRUE
  /\ env = [ faults |-> TRUE, titles |-> Titles, temp_ids |-> TempIds,
             history |-> FALSE ]
  /\ wk = [ w \in Threads |-> NotStarted ]
  /\ san = NoTitle

(***************************************************************************)
(* The interface thread                                                    *)
(***************************************************************************)

\* update_client, run on every write of the API key field.  It sets the
\* client to None first.  With a key of at most 10 characters it then disables
\* the button; with a longer key it goes on to create the client, a step other
\* threads can run before.
update_client ==
  /\ ui_pc = "idle"
  /\ gemini_client' = "None"
  /\ \/ /\ start_button' = "disabled"
        /\ ui_pc' = ui_pc
     \/ /\ ui_pc' = "creating"
        /\ start_button' = start_button
  /\ UNCHANGED << san, use_delay_var, env, dir, dir0, after_pending, wk >>

\* update_client, second half: genai.Client(api_key=...) returns and the
\* button is enabled, or raises and the button is disabled.
update_client_create ==
  /\ ui_pc = "creating"
  /\ ui_pc' = "idle"
  /\ \/ gemini_client' = "client" /\ start_button' = "normal"
     \/ env.faults /\ gemini_client' = gemini_client /\ start_button' = "disabled"
  /\ UNCHANGED << san, use_delay_var, env, dir, dir0, after_pending, wk >>

\* The guard of start_processing after the folder check: it returns when the
\* client is None.
start_allowed(client) == client # "None"

\* start_processing, the command of the start button (a disabled button runs
\* no command).  With a valid folder and a client it disables the button and
\* starts a thread on _run_processing_thread; otherwise it shows an error and
\* changes nothing.
start_processing(w) ==
  /\ ui_pc = "idle"
  /\ start_button = "normal"
  /\ wk[w].pc = "idle"
  /\ \A v \in Threads : v < w => wk[v].pc # "idle"
  /\ start_allowed(gemini_client)
  /\ start_button' = "disabled"
  /\ wk' = [ wk EXCEPT ![w] = [ NotStarted EXCEPT !.pc = "scan",
                                                  !.use_delay = use_delay_var ] ]
  /\ UNCHANGED << san, use_delay_var, env, dir, dir0, gemini_client, ui_pc, after_pending >>

\* A click on the checkbox of the pause between batches.  start_processing
\* reads the checkbox; a running thread keeps the value it was started with.
toggle_delay ==
  /\ ui_pc = "idle"
  /\ use_delay_var' = ~use_delay_var
  /\ UNCHANGED << san, env, dir, dir0, gemini_client, start_button, ui_pc, after_pending, wk >>

\* The callback _run_processing_thread queues in its finally clause: it
\* enables the button.
after_callback ==
  /\ ui_pc = "idle"
  /\ after_pending > 0
  /\ after_pending' = after_pending - 1
  /\ start_button' = "normal"
  /\ UNCHANGED << san, use_delay_var, env, dir, dir0, gemini_client, ui_pc, wk >>

(***************************************************************************)
(* rename_images_in_directory: control flow between the steps.  r is the   *)
(* record of a thread's locals.                                            *)
(***************************************************************************)

Min(a, b) == IF a <= b THEN a ELSE b

\* A bug current_batch_files could have: a slice one file too long.
current_batch_files_long(r) ==
  SubSeq(r.all_files, r.file_index + 1,
         Min(r.file_index + BATCH_SIZE + 1, Len(r.all_files)))

\* all_files[file_index:file_index + BATCH_SIZE]
current_batch_files(r) ==
  SubSeq(r.all_files, r.file_index + 1,
         Min(r.file_index + BATCH_SIZE, Len(r.all_files)))

Elements(seq) == { seq[k] : k \in 1..Len(seq) }

\* A bug sorted_set could have: sorted(failed_files_for_retry), which keeps a
\* filename as many times as it was added.
sorted_list(seq) ==
  LET Count(t, x) == Cardinality({ k \in 1..Len(t) : t[k] = x }) IN
  CHOOSE p \in [ 1..Len(seq) -> Elements(seq) ] :
    /\ \A x \in Elements(seq) : Count(p, x) = Count(seq, x)
    /\ \A j, k \in 1..Len(seq) : j < k => (p[j] = p[k] \/ StrLess(p[j], p[k]))

\* sorted(list(set(failed_files_for_retry)))
sorted_set(seq) ==
  CHOOSE p \in Perms(Elements(seq)) :
    \A j, k \in 1..Len(p) : j < k => StrLess(p[j], p[k])

\* The locals of one file's rename, cleared when the file is done.
ClearFile(r) ==
  [ r EXCEPT !.ext = << >>, !.new_base_name = << >>, !.new_filename = << >>,
             !.counter = 0, !.temp_filename = << >> ]

\* A bug EnterRetry could have: the retry loop run on every scanned file.
EnterRetry_all(r) ==
  LET u == sorted_set(r.all_files) IN
  [ r EXCEPT !.unique_failed_files = u,
             !.i = IF u = << >> THEN 0 ELSE 1,
             !.pc = IF u = << >> THEN "summary" ELSE "retry_check" ]

\* Section B: the retry loop starts on the deduplicated, sorted failure list,
\* or the summary follows when no file failed.
EnterRetry(r) ==
  LET u == sorted_set(r.failed_files_for_retry) IN
  [ r EXCEPT !.unique_failed_files = u,
             !.i = IF u = << >> THEN 0 ELSE 1,
             !.pc = IF u = << >> THEN "summary" ELSE "retry_check" ]

\* The head of the batch loop: while file_index < total_eligible_files.
EnterBatch(r) ==
  IF r.file_index < r.total_eligible_files
  THEN [ r EXCEPT !.pc = "load", !.i = 1, !.image_batch = << >>,
                  !.result_map = {}, !.retries = 0, !.response = "" ]
  ELSE EnterRetry([ r EXCEPT !.i = 0, !.image_batch = << >>,
                             !.result_map = {}, !.retries = 0, !.response = "" ])

\* A bug pause_needed could have: the pause taken after every batch, the
\* last one included.
pause_always(use_delay, file_index, total_eligible_files) == use_delay

\* "if use_delay and file_index < total_eligible_files"
pause_needed(use_delay, file_index, total_eligible_files) ==
  use_delay /\ file_index < total_eligible_files

\* The end of the batch loop's body: file_index += BATCH_SIZE, then the pause
\* when use_delay is set and files remain, or the head of the loop.
AfterBatch(r) ==
  LET r2 == [ r EXCEPT !.file_index = r.file_index + BATCH_SIZE ] IN
  IF pause_needed(r2.use_delay, r2.file_index, r2.total_eligible_files)
  THEN [ r2 EXCEPT !.pc = "pause", !.i = 0, !.image_batch = << >>,
                   !.result_map = {}, !.retries = 0, !.response = "" ]
  ELSE EnterBatch(r2)

\* A bug BatchFailed could have: the batch that failed is logged and its files
\* are not added to the failure list.
BatchFailed_logged(r) ==
  AfterBatch([ r EXCEPT !.failed_batches = @ \cup { r.file_index } ])

\* The else branch of "if result_map": the whole of current_batch_files is
\* added to the failure list.
BatchFailed(r) ==
  AfterBatch([ r EXCEPT !.failed_files_for_retry = @ \o current_batch_files(r),
                        !.failed_batches = @ \cup { r.file_index } ])

\* After the loop that loads the images: "if image_batch".
AfterLoad(r) ==
  IF r.image_batch # << >>
  THEN [ r EXCEPT !.pc = "batch_check", !.i = 0 ]
  ELSE AfterBatch(r)

\* The next file of "for original_filename, _ in image_batch".
NextApply(r) ==
  IF r.i < Len(r.image_batch)
  THEN [ ClearFile(r) EXCEPT !.pc = "apply", !.i = r.i + 1 ]
  ELSE AfterBatch(ClearFile(r))

\* The next file of "for filename in unique_failed_files".
NextRetry(r) ==
  IF r.i < Len(r.unique_failed_files)
  THEN [ ClearFile(r) EXCEPT !.pc = "retry_check", !.i = r.i + 1 ]
  ELSE [ ClearFile(r) EXCEPT !.pc = "summary", !.i = 0 ]

\* The start of the conflict resolution: the title is sanitized and the first
\* candidate name is built; counter = 1.
StartResolve(r, original_filename, short_title, next_pc) ==
  LET e == splitext_ext(original_filename) IN
  [ r EXCEPT !.ext = e,
             !.new_base_name = new_base_name(short_title),
             !.new_filename = first_filename(short_title, e),
             !.counter = 1,
             !.pc = next_pc ]

\* A bug NextCandidate could have: the counter incremented before the name is
\* built, so that the first suffix is _2.
NextCandidate_late(r) ==
  [ r EXCEPT !.new_filename = counter_filename(r.new_base_name, r.counter + 1, r.ext),
             !.counter = r.counter + 1 ]

\* One turn of "while os.path.exists(new_file_path)": the next candidate.
NextCandidate(r) ==
  [ r EXCEPT !.new_filename = counter_filename(r.new_base_name, r.counter, r.ext),
             !.counter = r.counter + 1 ]

\* The responses the remote model can give for a batch, by the filenames they
\* describe: any of the batch's filenames, and possibly a filename of no file.
\* The loop reads the title of a filename once, at result_map[original_filename]
\* (apply_result), and the model draws the title there.
ResultMaps(image_batch) ==
  { S \cup F : S \in SUBSET Elements(image_batch), F \in { {}, {FOREIGN_NAME} } }

\* The responses of a remote model that describes every file of the batch.
CompleteMaps(image_batch) == { Elements(image_batch) }

(***************************************************************************)
(* rename_images_in_directory: the batch phase                             *)
(***************************************************************************)

Set(w, r) == wk' = [ wk EXCEPT ![w] = r ]

\* The scan: os.listdir raises (nothing in the function catches it: the thread
\* ends in the finally clause of _run_processing_thread), or returns the
\* names in some order, of which the eligible ones are kept.
scan(w) ==
  /\ wk[w].pc = "scan"
  /\ \/ /\ env.faults
        /\ Set(w, [ wk[w] EXCEPT !.pc = "crashed" ])
        /\ after_pending' = after_pending + 1
     \/ /\ \E order \in Perms({ f \in DOMAIN dir : IsEligible(f) }) :
             Set(w, EnterBatch([ wk[w] EXCEPT !.all_files = order,
                                              !.total_eligible_files = Len(order) ]))
        /\ after_pending' = after_pending
  /\ UNCHANGED << san, use_delay_var, env, dir, dir0, gemini_client, start_button, ui_pc >>

\* One turn of the loading loop: Image.open on the next file of the batch; a
\* file that does not load goes to the failure list.
load_image(w) ==
  LET r == wk[w]
      batch == current_batch_files(r)
      filename == batch[r.i]
  IN
  /\ r.pc = "load"
  /\ \E ok \in Image_open(dir, filename, env.faults) :
       LET r2 == IF ok
                 THEN [ r EXCEPT !.image_batch = Append(@, filename) ]
                 ELSE [ r EXCEPT !.failed_files_for_retry = Append(@, filename) ]
       IN Set(w, IF r.i < Len(batch) THEN [ r2 EXCEPT !.i = r.i + 1 ]
                 ELSE AfterLoad(r2))
  /\ UNCHANGED << san, use_delay_var, env, dir, dir0, gemini_client, start_button, ui_pc, after_pending >>

\* get_batch_info_from_images, its first test: without a client it returns
\* None, the batch-failure signal.
batch_check(w) ==
  LET r == wk[w] IN
  /\ r.pc = "batch_check"
  /\ Set(w, IF gemini_client = "None" THEN BatchFailed(r)
            ELSE [ r EXCEPT !.pc = "batch_send", !.retries = 0 ])
  /\ UNCHANGED << san, use_delay_var, env, dir, dir0, gemini_client, start_button, ui_pc, after_pending >>

\* A bug retry_again could have: one attempt too many.
retry_again_more(retries) == retries <= MAX_RETRIES

\* What the retry loop does after an APIError has been counted: it tries
\* again while retries < MAX_RETRIES.
retry_again(retries) == retries < MAX_RETRIES

\* One attempt of get_batch_info_from_images: generate_content on the global
\* client.  On a None client the attribute access raises AttributeError, which
\* ends the batch; otherwise the request is sent: it raises APIError, or
\* another error, which ends the batch, or returns a response.
batch_send(w) ==
  LET r == wk[w]
      sent == IF env.history
              THEN [ r EXCEPT !.batch_submitted = @ \cup Elements(r.image_batch) ]
              ELSE r
  IN
  /\ r.pc = "batch_send"
  /\ IF gemini_client = "None"
     THEN Set(w, BatchFailed(r))
     ELSE \/ /\ env.faults
             /\ Set(w, [ sent EXCEPT !.pc = "api_error", !.retries = r.retries + 1 ])
          \/ /\ env.faults
             /\ Set(w, BatchFailed(sent))
          \/ \E response \in (IF env.faults THEN { "valid", "malformed" }
                                ELSE { "valid" }) :
               Set(w, [ sent EXCEPT !.pc = "parse", !.response = response ])
  /\ UNCHANGED << san, use_delay_var, env, dir, dir0, gemini_client, start_button, ui_pc, after_pending >>

\* The handler of APIError, after "retries += 1": another attempt follows the
\* delay while retries < MAX_RETRIES; otherwise None is returned.
batch_api_error(w) ==
  LET r == wk[w] IN
  /\ r.pc = "api_error"
  /\ Set(w, IF retry_again(r.retries) THEN [ r EXCEPT !.pc = "sleep" ]
            ELSE BatchFailed(r))
  /\ UNCHANGED << san, use_delay_var, env, dir, dir0, gemini_client, start_button, ui_pc, after_pending >>

\* time.sleep(RETRY_DELAY), then the head of the retry loop.
batch_sleep(w) ==
  LET r == wk[w] IN
  /\ r.pc = "sleep"
  /\ Set(w, [ r EXCEPT !.pc = "batch_send" ])
  /\ UNCHANGED << san, use_delay_var, env, dir, dir0, gemini_client, start_button, ui_pc, after_pending >>

\* A bug on_malformed could have: the parse error handled as the APIError is,
\* counted and retried.
on_malformed_retry(r) ==
  [ r EXCEPT !.pc = "api_error", !.retries = r.retries + 1, !.response = "" ]

\* The handlers of the errors of parsing (JSONDecodeError, AttributeError,
\* KeyError, and any other exception): None is returned at once, and the
\* caller takes the else branch of "if result_map".
on_malformed(r) == BatchFailed(r)

\* json.loads, BatchDescription(**json_data) and the building of result_map:
\* a response that does not parse or does not fit the schema raises and None
\* is returned; one that parses gives the mapping, and an empty mapping is
\* falsy to the caller.
batch_parse(w) ==
  LET r == wk[w] IN
  /\ r.pc = "parse"
  /\ IF r.response = "malformed"
     THEN Set(w, on_malformed(r))
     ELSE \E m \in (IF env.faults THEN ResultMaps(r.image_batch)
                      ELSE CompleteMaps(r.image_batch)) :
            Set(w, IF m = {} THEN BatchFailed(r)
                   ELSE [ r EXCEPT !.pc = "apply", !.i = 1, !.result_map = m,
                                   !.response = "" ])
  /\ UNCHANGED << san, use_delay_var, env, dir, dir0, gemini_client, start_button, ui_pc, after_pending >>

\* time.sleep(5) between two batches, then the head of the batch loop.
pause(w) ==
  LET r == wk[w] IN
  /\ r.pc = "pause"
  /\ Set(w, EnterBatch(r))
  /\ UNCHANGED << san, use_delay_var, env, dir, dir0, gemini_client, start_button, ui_pc, after_pending >>

\* A bug missing_result could have: a filename missing from the mapping fails
\* the whole batch.
missing_result_all(failed, image_batch, original_filename) ==
  failed \o image_batch

\* "if original_filename not in result_map": the failure list after the
\* append of that filename.
missing_result(failed, image_batch, original_filename) ==
  Append(failed, original_filename)

\* One file of the result loop, up to the conflict resolution: a file missing
\* from the mapping goes to the failure list; otherwise its title is sanitized
\* and the first candidate name is built.
apply_result(w) ==
  LET r == wk[w]
      original_filename == r.image_batch[r.i]
  IN
  /\ r.pc = "apply"
  /\ IF original_filename \notin r.result_map
     THEN Set(w, NextApply([ r EXCEPT !.failed_files_for_retry =
                               missing_result(@, r.image_batch, original_filename) ]))
     ELSE \E short_title \in env.titles :
            Set(w, StartResolve(r, original_filename, short_title, "exists"))
  /\ UNCHANGED << san, use_delay_var, env, dir, dir0, gemini_client, start_button, ui_pc, after_pending >>

\* One test of "while os.path.exists(new_file_path)" in the batch phase.
batch_exists(w) ==
  LET r == wk[w] IN
  /\ r.pc = "exists"
  /\ Set(w, IF exists(dir, r.new_filename) THEN NextCandidate(r)
            ELSE [ r EXCEPT !.pc = "rename" ])
  /\ UNCHANGED << san, use_delay_var, env, dir, dir0, gemini_client, start_button, ui_pc, after_pending >>

\* A bug batch_count could have: the increment placed after the try block, so
\* that a file is counted whether or not its rename raised.
batch_count_always(count, ok) == count + 1

\* batch_processed_count after the rename of a file: counted when os.rename
\* returned, not when it raised.
batch_count(count, ok) == IF ok THEN count + 1 ELSE count

\* os.rename(file_path, new_file_path) in the batch phase: the file is counted
\* as renamed, or, when the rename raises, goes to the failure list.
batch_rename(w) ==
  LET r == wk[w]
      original_filename == r.image_batch[r.i]
  IN
  /\ r.pc = "rename"
  /\ \E o \in os_rename(dir, original_filename, r.new_filename, env.faults) :
       /\ dir' = o.dir
       /\ Set(w, NextApply(
            [ r EXCEPT !.batch_processed_count = batch_count(@, o.ok),
                       !.renamed_by_batch =
                          IF o.ok THEN @ \cup {original_filename} ELSE @,
                       !.failed_files_for_retry =
                          IF o.ok THEN @ ELSE Append(@, original_filename) ]))
  /\ UNCHANGED << san, use_delay_var, env, dir0, gemini_client, start_button, ui_pc, after_pending >>

(***************************************************************************)
(* retry_failed_file: the recovery flow of one file                        *)
(***************************************************************************)

\* The return of retry_failed_file to the retry loop, which counts a True.
FlowReturns(r, result, how) ==
  NextRetry([ r EXCEPT !.retry_processed_count = IF result THEN @ + 1 ELSE @,
                       !.report = how ])

\* The first test of the flow: without a client it returns False.  Otherwise
\* the temporary name is built from a fresh random identifier.
retry_check(w) ==
  LET r == wk[w]
      original_filename == r.unique_failed_files[r.i]
      r0 == [ r EXCEPT !.flow_file = original_filename, !.isolated = 0,
                       !.report = "",
                       !.flow_started = @ \cup { original_filename } ]
  IN
  /\ r.pc = "retry_check"
  /\ IF gemini_client = "None"
     THEN Set(w, FlowReturns(r0, FALSE, "no_client"))
     ELSE \E temp_unique_id \in env.temp_ids :
            Set(w, [ r0 EXCEPT !.pc = "isolate",
                               !.ext = splitext_ext(original_filename),
                               !.temp_filename =
                                  temp_filename(temp_unique_id,
                                                splitext_ext(original_filename)) ])
  /\ UNCHANGED << san, use_delay_var, env, dir, dir0, gemini_client, start_button, ui_pc, after_pending >>

\* Isolating: os.rename(original_file_path, temp_file_path), the first
\* statement of the try block; when it raises, the except clause runs.
isolate(w) ==
  LET r == wk[w]
      original_filename == r.unique_failed_files[r.i]
  IN
  /\ r.pc = "isolate"
  /\ \E o \in os_rename(dir, original_filename, r.temp_filename, env.faults) :
       /\ dir' = o.dir
       /\ Set(w, IF o.ok
                 THEN [ r EXCEPT !.pc = "open", !.isolated = dir[original_filename] ]
                 ELSE [ r EXCEPT !.pc = "rollback" ])
  /\ UNCHANGED << san, use_delay_var, env, dir0, gemini_client, start_button, ui_pc, after_pending >>

\* Image.open(temp_file_path)
open_temp(w) ==
  LET r == wk[w] IN
  /\ r.pc = "open"
  /\ \E ok \in Image_open(dir, r.temp_filename, env.faults) :
       Set(w, [ r EXCEPT !.pc = IF ok THEN "request" ELSE "rollback" ])
  /\ UNCHANGED << san, use_delay_var, env, dir, dir0, gemini_client, start_button, ui_pc, after_pending >>

\* "if not short_title": an empty title (or none) raises ValueError.
title_missing(short_title) == short_title = EMPTY

\* The single request of the flow and the reading of its answer.  A None
\* client, an error of the request, an answer that does not parse and a
\* missing or empty title all raise; otherwise the title is sanitized and the
\* first candidate name is built.
retry_request(w) ==
  LET r == wk[w]
      original_filename == r.unique_failed_files[r.i]
  IN
  /\ r.pc = "request"
  /\ IF gemini_client = "None"
     THEN Set(w, [ r EXCEPT !.pc = "rollback" ])
     ELSE \/ /\ env.faults
             /\ Set(w, [ r EXCEPT !.pc = "rollback" ])
          \/ \E short_title \in env.titles :
               Set(w, IF title_missing(short_title)
                      THEN [ r EXCEPT !.pc = "rollback" ]
                      ELSE StartResolve(r, original_filename, short_title,
                                        "retry_exists"))
  /\ UNCHANGED << san, use_delay_var, env, dir, dir0, gemini_client, start_button, ui_pc, after_pending >>

\* One test of "while os.path.exists(new_file_path)" in the recovery flow.
retry_exists(w) ==
  LET r == wk[w] IN
  /\ r.pc = "retry_exists"
  /\ Set(w, IF exists(dir, r.new_filename) THEN NextCandidate(r)
            ELSE [ r EXCEPT !.pc = "retry_rename" ])
  /\ UNCHANGED << san, use_delay_var, env, dir, dir0, gemini_client, start_button, ui_pc, after_pending >>

\* os.rename(temp_file_path, new_file_path): the flow returns True, or the
\* except clause runs.
retry_rename(w) ==
  LET r == wk[w]
      original_filename == r.unique_failed_files[r.i]
  IN
  /\ r.pc = "retry_rename"
  /\ \E o \in os_rename(dir, r.temp_filename, r.new_filename, env.faults) :
       /\ dir' = o.dir
       /\ Set(w, IF o.ok
                 THEN FlowReturns([ r EXCEPT !.renamed_by_retry =
                                               @ \cup {original_filename} ],
                                  TRUE, "success")
                 ELSE [ r EXCEPT !.pc = "rollback" ])
  /\ UNCHANGED << san, use_delay_var, env, dir0, gemini_client, start_button, ui_pc, after_pending >>

\* A bug restore could have: the except clause reports the file restored
\* without renaming it back.
restore_skipped(d, temp, original, env_fails) == { [ ok |-> TRUE, dir |-> d ] }

\* The rename of the except clause, os.rename(temp_file_path,
\* original_file_path), and its outcomes.
restore(d, temp, original, env_fails) == os_rename(d, temp, original, env_fails)

\* The except clause: os.rename(temp_file_path, original_file_path) inside its
\* own try; the file is reported restored, or, when that rename raises, the
\* FATAL line is logged.  The flow returns False.
rollback(w) ==
  LET r == wk[w]
      original_filename == r.unique_failed_files[r.i]
  IN
  /\ r.pc = "rollback"
  /\ \E o \in restore(dir, r.temp_filename, original_filename, env.faults) :
       /\ dir' = o.dir
       /\ Set(w, FlowReturns(r, FALSE, IF o.ok THEN "restored" ELSE "fatal"))
  /\ UNCHANGED << san, use_delay_var, env, dir0, gemini_client, start_button, ui_pc, after_pending >>

(***************************************************************************)
(* The final summary and the end of the thread                             *)
(***************************************************************************)

\* Section C: the totals are computed and reported; then the finally clause
\* of _run_processing_thread queues the callback that enables the button.
summary(w) ==
  LET r == wk[w]
      renamed == r.batch_processed_count + r.retry_processed_count
  IN
  /\ r.pc = "summary"
  /\ Set(w, [ r EXCEPT !.pc = "done",
                       !.total_renamed = renamed,
                       !.total_failed = r.total_eligible_files - renamed ])
  /\ after_pending' = after_pending + 1
  /\ UNCHANGED << san, use_delay_var, env, dir, dir0, gemini_client, start_button, ui_pc >>

(***************************************************************************)
(* Specifications                                                          *)
(***************************************************************************)

\* One step of thread w.
Worker(w) ==
  \/ scan(w)
  \/ load_image(w)
  \/ batch_check(w)
  \/ batch_send(w)
  \/ batch_api_error(w)
  \/ batch_sleep(w)
  \/ batch_parse(w)
  \/ pause(w)
  \/ apply_result(w)
  \/ batch_exists(w)
  \/ batch_rename(w)
  \/ retry_check(w)
  \/ isolate(w)
  \/ open_temp(w)
  \/ retry_request(w)
  \/ retry_exists(w)
  \/ retry_rename(w)
  \/ rollback(w)
  \/ summary(w)

\* The program in which the start button is pressed once: the interface
\* thread and one worker.
Next ==
  \/ update_client
  \/ update_client_create
  \/ after_callback
  \/ start_processing(1)
  \/ Worker(1)

Spec == Init /\ [][Next]_vars

\* One step of thread w where the remote service raises no APIError and the
\* directory gives one batch: batch_api_error, batch_sleep and pause, which
\* are never enabled there, are left out.
WorkerOneBatch(w) ==
  \/ scan(w)
  \/ load_image(w)
  \/ batch_check(w)
  \/ batch_send(w)
  \/ batch_parse(w)
  \/ apply_result(w)
  \/ batch_exists(w)
  \/ batch_rename(w)
  \/ retry_check(w)
  \/ isolate(w)
  \/ open_temp(w)
  \/ retry_request(w)
  \/ retry_exists(w)
  \/ retry_rename(w)
  \/ rollback(w)
  \/ summary(w)

\* The program in which the start button can be pressed again: the interface
\* thread and every thread it can start, on the directory of InitThreads.
NextThreads ==
  \/ update_client
  \/ update_client_create
  \/ after_callback
  \/ \E w \in Threads : start_processing(w)
  \/ \E w \in Threads : WorkerOneBatch(w)

\* A directory of two eligible files, for the runs of several threads.
InitThreads ==
  /\ dir = Identify({ A_JPG, B_JPG })
  /\ dir0 = dir
  /\ gemini_client = "client"
  /\ start_button = "normal"
  /\ ui_pc = "idle"
  /\ after_pending = 0
  /\ use_delay_var = TRUE
  /\ env = [ faults |-> FALSE, titles |-> { RED_SUNSET },
             temp_ids |-> { << DigitChars[1] >> }, history |-> FALSE ]
  /\ wk = [ w \in Threads |-> NotStarted ]
  /\ san = NoTitle

SpecThreads == InitThreads /\ [][NextThreads]_vars

\* The program of one worker with the checkbox of the pause in use, on every
\* directory of the model, with a remote model that gives one title and one
\* temporary identifier.
NextDelay ==
  \/ Next
  \/ toggle_delay

InitDelay ==
  /\ \E names \in InitialNames : dir = Identify(names)
  /\ dir0 = dir
  /\ \/ gemini_client = "None" /\ start_button = "disabled"
     \/ gemini_client = "client" /\ start_button = "normal"
  /\ ui_pc = "idle"
  /\ after_pending = 0
  /\ use_delay_var = TRUE
  /\ env = [ faults |-> TRUE, titles |-> { RED_SUNSET },
             temp_ids |-> { << DigitChars[1] >> }, history |-> FALSE ]
  /\ wk = [ w \in Threads |-> NotStarted ]
  /\ san = NoTitle

SpecDelay == InitDelay /\ [][NextDelay]_vars

\* The program of one worker, as InitDelay starts it, with the files sent in
\* batch requests recorded.
InitHistory ==
  /\ \E names \in InitialNames : dir = Identify(names)
  /\ dir0 = dir
  /\ \/ gemini_client = "None" /\ start_button = "disabled"
     \/ gemini_client = "client" /\ start_button = "normal"
  /\ ui_pc = "idle"
  /\ after_pending = 0
  /\ use_delay_var = TRUE
  /\ env = [ faults |-> TRUE, titles |-> { RED_SUNSET },
             temp_ids |-> { << DigitChars[1] >> }, history |-> TRUE ]
  /\ wk = [ w \in Threads |-> NotStarted ]
  /\ san = NoTitle

SpecHistory == InitHistory /\ [][Next]_vars

(***************************************************************************)
(* The sanitizer on its own                                                *)
(***************************************************************************)

\* The longest title given to the sanitizer.
MaxTitleLen == 4

\* A letter, a digit, the underscore, the space, the hyphen, another
\* whitespace character and a punctuation character.
SanAlphabet == { "a", "1", "_", " ", "-", "\t", "!" }

RECURSIVE StringsUpTo(_)
StringsUpTo(n) ==
  IF n = 0 THEN { << >> }
  ELSE LET shorter == StringsUpTo(n - 1) IN
       shorter \cup { Append(t, c) : t \in { u \in shorter : Len(u) = n - 1 },
                                     c \in SanAlphabet }

\* The sanitization step applied to a title.
sanitize_once ==
  /\ san.stage = 0
  /\ san' = [ san EXCEPT !.stage = 1, !.once = cleaned_title(san.title) ]
  /\ UNCHANGED << dir, dir0, gemini_client, start_button, ui_pc, after_pending,
                  use_delay_var, env, wk >>

\* The sanitization step applied to its own result.
sanitize_twice ==
  /\ san.stage = 1
  /\ san' = [ san EXCEPT !.stage = 2, !.twice = cleaned_title(san.once) ]
  /\ UNCHANGED << dir, dir0, gemini_client, start_button, ui_pc, after_pending,
                  use_delay_var, env, wk >>

InitSan ==
  /\ dir = << >>
  /\ dir0 = dir
  /\ gemini_client = "None"
  /\ start_button = "disabled"
  /\ ui_pc = "idle"
  /\ after_pending = 0
  /\ use_delay_var = TRUE
  /\ env = [ faults |-> FALSE, titles |-> {}, temp_ids |-> {}, history |-> FALSE ]
  /\ wk = [ w \in Threads |-> NotStarted ]
  /\ \E t \in StringsUpTo(MaxTitleLen) : san = [ NoTitle EXCEPT !.title = t ]

NextSan == sanitize_once \/ sanitize_twice

SpecSan == InitSan /\ [][NextSan]_vars

(***************************************************************************)
(* Properties                                                              *)
(***************************************************************************)

\* The eligible files of the directory the program started on.
EligibleAtStart == { f \in DOMAIN dir0 : IsEligible(f) }

\* A thread that runs rename_images_in_directory.
Active(w) == wk[w].pc \notin { "idle", "done", "crashed" }

\* C1: when rename_images_in_directory completes, eligible = batch_renamed +
\* retry_renamed + failed, where eligible counts the files found by the scan,
\* batch_renamed and retry_renamed count the files the batch phase and the
\* recovery phase have renamed, and failed, which is not negative, counts the
\* eligible files renamed by neither.
C1_TallyAtCompletion ==
  \A w \in Threads :
    wk[w].pc = "done" =>
      LET r == wk[w]
          eligible == Elements(r.all_files)
          neither == eligible \ (r.renamed_by_batch \cup r.renamed_by_retry)
      IN
      /\ eligible = EligibleAtStart
      /\ r.total_eligible_files = Cardinality(eligible)
      /\ r.renamed_by_batch \cup r.renamed_by_retry \subseteq eligible
      /\ r.renamed_by_batch \cap r.renamed_by_retry = {}
      /\ r.batch_processed_count = Cardinality(r.renamed_by_batch)
      /\ r.retry_processed_count = Cardinality(r.renamed_by_retry)
      /\ r.total_failed = Cardinality(neither)
      /\ r.total_failed >= 0
      /\ r.total_eligible_files =
           r.batch_processed_count + r.retry_processed_count + r.total_failed

\* A completed run in which each of the three counts is at least one.
C1_Witness ==
  \E w \in Threads :
    /\ wk[w].pc = "done"
    /\ wk[w].batch_processed_count >= 1
    /\ wk[w].retry_processed_count >= 1
    /\ wk[w].total_failed >= 1

\* C2: the conflict-resolving rename, in the batch phase and in the recovery
\* flow, never overwrites an existing file: the final name was absent from the
\* directory when the loop selected it, and every file the directory held
\* before the rename is still in it afterwards.
C2_RenameLosesNoFile ==
  [][ \A w \in Threads :
        (wk[w].pc \in { "rename", "retry_rename" } /\ wk'[w] # wk[w]) =>
          Files(dir') = Files(dir) ]_vars

\* C4: at any time at most one thread runs rename_images_in_directory.
C4_AtMostOneWorker ==
  Cardinality({ w \in Threads : Active(w) }) <= 1

\* C3: in retry_failed_file, when the isolating rename has succeeded, a later
\* step (image load, request, missing or empty title, final rename) has failed
\* and the rollback rename has succeeded, then on the flow's return the file
\* is in the directory under exactly its original name, and the flow has
\* returned failure: the retry loop has not counted the file as renamed.
C3_RollbackRestoresOriginal ==
  \A w \in Threads :
    LET r == wk[w] IN
    (r.report = "restored" /\ r.isolated # 0) =>
      /\ exists(dir, r.flow_file)
      /\ dir[r.flow_file] = r.isolated
      /\ \A n \in DOMAIN dir : dir[n] = r.isolated => n = r.flow_file
      /\ r.flow_file \notin r.renamed_by_retry
      /\ r.retry_processed_count = Cardinality(r.renamed_by_retry)

\* A flow has isolated its file, failed at a later step, restored the file
\* and returned.
C3_Witness ==
  \E w \in Threads :
    /\ wk[w].report = "restored"
    /\ wk[w].isolated # 0
    /\ wk[w].pc \in { "retry_check", "summary" }
    /\ exists(dir, wk[w].flow_file)

\* C5: no error ends a run of rename_images_in_directory before the summary:
\* a run that has started never terminates anywhere but after its summary.
C5_NoErrorEndsRun ==
  \A w \in Threads : wk[w].pc # "crashed"

\* The filenames of the batch in hand that the mapping has no title for.
Omitted(r) == Elements(r.image_batch) \ r.result_map

\* C6: in the result loop of a batch whose mapping omits exactly one of the
\* batch's filenames, the step that reaches the omitted filename appends it,
\* and only it, to the failure list; every other step of the loop leaves the
\* list as it is, except the rename of a file that raises, which appends that
\* file.
C6_OnlyOmittedFileFails ==
  [][ \A w \in Threads :
        LET r == wk[w]
            f == r.image_batch[r.i]
            failed_after == wk'[w].failed_files_for_retry
        IN
        ( /\ r.pc \in { "apply", "exists", "rename" }
          /\ Cardinality(Omitted(r)) = 1
          /\ wk'[w] # r ) =>
            failed_after =
              IF r.pc = "apply" /\ f \in Omitted(r)
                THEN Append(r.failed_files_for_retry, f)
              ELSE IF r.pc = "rename" /\ f \notin wk'[w].renamed_by_batch
                THEN Append(r.failed_files_for_retry, f)
              ELSE r.failed_files_for_retry ]_vars

\* A batch of two files whose mapping omits the first: the loop is at the
\* second file, the first is in the failure list and the second is not.
C6_Witness ==
  \E w \in Threads :
    LET r == wk[w] IN
    /\ r.pc \in { "exists", "rename" }
    /\ Len(r.image_batch) = 2
    /\ r.i = 2
    /\ Omitted(r) = { r.image_batch[1] }
    /\ r.image_batch[1] \in Elements(r.failed_files_for_retry)
    /\ r.image_batch[2] \notin Elements(r.failed_files_for_retry)

\* ceil(n / BATCH_SIZE) * BATCH_SIZE: file_index after the last batch of n files.
AfterLastBatch(n) == ((n + BATCH_SIZE - 1) \div BATCH_SIZE) * BATCH_SIZE

\* all_files[from : from + BATCH_SIZE], file by file.
Slice(r, from) ==
  [ k \in 1..(Min(from + BATCH_SIZE, Len(r.all_files)) - from) |-> r.all_files[from + k] ]

\* C7: the batch phase takes the batches as ceil(n / BATCH_SIZE) consecutive
\* slices of the scan order, each of at most BATCH_SIZE files: a batch starts
\* at a multiple of BATCH_SIZE below n and its loaded files are those of that
\* slice, in order, and the phase ends at ceil(n / BATCH_SIZE) * BATCH_SIZE.
\* When the last batch alone has failed as a whole, the batch phase has renamed
\* every file of the other batches and the recovery has renamed every file of
\* the last one, exactly the files of the last batch have entered the recovery
\* and the tally is n, n minus the size of the last batch, that size, and 0.
C7_BatchesAndTally ==
  \A w \in Threads :
    LET r == wk[w]
        n == r.total_eligible_files
        last == AfterLastBatch(n) - BATCH_SIZE
        L == Elements(Slice(r, last))
    IN
    /\ r.pc \in { "load", "batch_check", "batch_send", "api_error", "sleep",
                  "parse", "apply", "exists", "rename" } =>
         /\ r.file_index % BATCH_SIZE = 0
         /\ r.file_index < n
         /\ Len(r.image_batch) <= BATCH_SIZE
         /\ r.image_batch =
              SelectSeq(Slice(r, r.file_index),
                        LAMBDA f : f \in Elements(r.image_batch))
         /\ r.pc # "load" /\ Elements(r.failed_files_for_retry) \cap Elements(Slice(r, r.file_index)) = {}
              => r.image_batch = Slice(r, r.file_index)
    /\ r.pc = "pause" =>
         r.file_index % BATCH_SIZE = 0 /\ 0 < r.file_index /\ r.file_index < n
    /\ r.pc \in { "retry_check", "isolate", "open", "request", "retry_exists",
                  "retry_rename", "rollback", "summary", "done" } =>
         r.file_index = AfterLastBatch(n)
    /\ ( /\ r.pc = "done"
         /\ n > 0
         /\ r.failed_batches = { last }
         /\ r.renamed_by_batch = Elements(r.all_files) \ L
         /\ r.renamed_by_retry = L ) =>
           /\ Elements(r.unique_failed_files) = L
           /\ Len(r.unique_failed_files) = Cardinality(L)
           /\ r.total_eligible_files = n
           /\ r.batch_processed_count = n - Cardinality(L)
           /\ r.retry_processed_count = Cardinality(L)
           /\ r.total_failed = 0

\* A completed run on MaxEligible files in two batches, the first of BATCH_SIZE
\* files and the last of the rest: the last batch alone failed as a whole, and
\* the recovery renamed its files.
C7_Witness ==
  \E w \in Threads :
    LET r == wk[w] IN
    /\ r.pc = "done"
    /\ r.total_eligible_files = MaxEligible
    /\ r.failed_batches = { AfterLastBatch(MaxEligible) - BATCH_SIZE }
    /\ r.failed_batches # { 0 }
    /\ r.batch_processed_count = AfterLastBatch(MaxEligible) - BATCH_SIZE
    /\ r.retry_processed_count = MaxEligible - r.batch_processed_count
    /\ r.retry_processed_count > 0
    /\ r.total_failed = 0

\* The extensions of the names the program renames.
Extensions == { splitext_ext(EligiblePool[k]) : k \in 1..Len(EligiblePool) }

\* The base names the program builds: sanitized title and suffix.
BaseNames == { new_base_name(t) : t \in Titles }

\* The candidate names of a base name and an extension, in the order in which
\* the conflict resolution tries them: position 0 is the unsuffixed name.
Candidate(base, k, ext) ==
  IF k = 0 THEN base \o ext ELSE counter_filename(base, k, ext)

\* C8: the name passed to the rename is the unsuffixed name T_DESC.ext when
\* that name is free, and otherwise the name T_DESC_k.ext of the smallest
\* counter k, counted from 1, whose name is unused.  So the names of one title
\* and extension are given out without a gap: T_DESC_k.ext is in the directory
\* only with T_DESC.ext and every T_DESC_j.ext, j < k; when no file named with
\* T was there beforehand, the first file given T is T_DESC.ext and the k-th
\* following one T_DESC_k.ext.
C8_SmallestFreeCounter ==
  /\ \A w \in Threads :
       LET r == wk[w] IN
       r.pc \in { "rename", "retry_rename" } =>
         /\ r.new_base_name \in BaseNames
         /\ r.new_filename = Candidate(r.new_base_name, r.counter - 1, r.ext)
         /\ ~exists(dir, r.new_filename)
         /\ \A j \in 0..(r.counter - 2) :
              exists(dir, Candidate(r.new_base_name, j, r.ext))
  /\ \A base \in BaseNames, ext \in Extensions, k \in 1..(MaxEligible + 1) :
       exists(dir, Candidate(base, k, ext)) =>
         \A j \in 0..(k - 1) : exists(dir, Candidate(base, j, ext))

\* Two files of the same extension were given the same sanitized title in a
\* run on a directory that held no file named with that title: the directory
\* now holds r_s_DESC.jpg and r_s_DESC_1.jpg.
C8_Witness ==
  /\ ~exists(dir0, << "r", "_", "s", "_", "D", "E", "S", "C", ".", "j", "p", "g" >>)
  /\ exists(dir, << "r", "_", "s", "_", "D", "E", "S", "C", ".", "j", "p", "g" >>)
  /\ exists(dir, << "r", "_", "s", "_", "D", "E", "S", "C", "_", "1", ".", "j", "p", "g" >>)
  /\ \E w \in Threads : wk[w].pc = "done" /\ wk[w].total_renamed = 2

\* C9: the sanitization step applied to an already sanitized title returns
\* that same string.
C9_SanitizeIdempotent ==
  san.stage = 2 => san.twice = san.once

\* The step was applied twice to a title it changes: one with inner
\* whitespace, a hyphen and punctuation.
C9_Witness ==
  /\ san.stage = 2
  /\ san.title = << "!", "\t", "-", " " >>
  /\ san.once = << "_" >>
  /\ san.twice = san.once

\* The separator the sanitizer writes for a space or a hyphen.
SEPARATOR == "_"

\* C10: the sanitized title contains only word characters and the separator,
\* and every run of consecutive spaces and hyphens of the title is collapsed
\* to a single separator: a title without a separator of its own gives no two
\* adjacent separators.
C10_OnlyWordCharsRunsCollapsed ==
  san.stage >= 1 =>
    /\ \A k \in 1..Len(san.once) : IsWordChar(san.once[k])
    /\ (\A k \in 1..Len(san.title) : san.title[k] # SEPARATOR) =>
         \A k \in 1..(Len(san.once) - 1) :
           ~(san.once[k] = SEPARATOR /\ san.once[k + 1] = SEPARATOR)

\* C11: the isolating rename of retry_failed_file never collides: the temporary
\* name it renames the original file to names no file of the directory, files
\* left under a temporary name by an earlier failed rollback included, so the
\* rename loses no file.
C11_IsolationNeverCollides ==
  [][ \A w \in Threads :
        (wk[w].pc = "isolate" /\ wk'[w] # wk[w]) =>
          /\ ~exists(dir, wk[w].temp_filename)
          /\ Files(dir') = Files(dir) ]_vars

\* C12: get_batch_info_from_images sends at most MAX_RETRIES requests for one
\* batch (retries counts the requests that ended in an APIError, all the
\* requests sent before the one in hand); a request that is not the first
\* follows the delay, and the delay follows an APIError; the delay is taken
\* only when another request follows, never after the last one; after
\* MAX_RETRIES APIErrors the batch fails as a whole.
C12_BoundedRetries ==
  [][ \A w \in Threads :
        LET r == wk[w]
            q == wk'[w]
        IN
        q # r =>
          /\ q.pc \in { "batch_send", "parse" } => q.retries < MAX_RETRIES
          /\ q.pc = "api_error" => 1 <= q.retries /\ q.retries <= MAX_RETRIES
          /\ q.pc = "sleep" => 1 <= q.retries /\ q.retries < MAX_RETRIES
          /\ q.pc = "batch_send" =>
               \/ r.pc = "batch_check" /\ q.retries = 0
               \/ r.pc = "sleep" /\ q.retries = r.retries
          /\ q.pc = "sleep" => r.pc = "api_error" /\ q.retries = r.retries
          /\ q.pc = "api_error" => r.pc = "batch_send" /\ q.retries = r.retries + 1
          /\ r.pc = "sleep" => q.pc = "batch_send"
          /\ (r.pc = "api_error" /\ r.retries = MAX_RETRIES) =>
               /\ q.pc \notin { "sleep", "batch_send", "parse", "apply" }
               /\ q.failed_batches = r.failed_batches \cup { r.file_index }
               /\ Elements(current_batch_files(r)) \subseteq
                    Elements(q.failed_files_for_retry) ]_vars

\* The third request for a batch has ended in an APIError, after two delays.
C12_Witness ==
  \E w \in Threads : wk[w].pc = "api_error" /\ wk[w].retries = MAX_RETRIES

\* C13: when the response to a batch request is malformed or violates the
\* schema, whatever the number of attempts already made, no further request is
\* sent for that batch: the batch fails as a whole at once, every file of the
\* batch is in the failure list, none of them is renamed, and the loop goes on
\* to the next batch.
C13_MalformedFailsBatchAtOnce ==
  [][ \A w \in Threads :
        LET r == wk[w]
            q == wk'[w]
        IN
        (r.pc = "parse" /\ r.response = "malformed" /\ q # r) =>
          /\ q.pc \in { "pause", "load", "retry_check", "summary" }
          /\ q.file_index = r.file_index + BATCH_SIZE
          /\ q.failed_batches = r.failed_batches \cup { r.file_index }
          /\ Elements(Slice(r, r.file_index)) \subseteq Elements(q.failed_files_for_retry)
          /\ q.failed_files_for_retry =
               r.failed_files_for_retry \o Slice(r, r.file_index)
          /\ q.renamed_by_batch = r.renamed_by_batch
          /\ q.batch_processed_count = r.batch_processed_count
          /\ dir' = dir ]_vars

\* A malformed response to the last request the retry loop allows, for a batch
\* of BATCH_SIZE files.
C13_Witness ==
  \E w \in Threads :
    /\ wk[w].pc = "parse"
    /\ wk[w].response = "malformed"
    /\ wk[w].retries = MAX_RETRIES - 1
    /\ Len(wk[w].image_batch) = BATCH_SIZE

\* The positions of a thread after its batch phase.
AfterBatchPhase ==
  { "retry_check", "isolate", "open", "request", "retry_exists",
    "retry_rename", "rollback", "summary", "done" }

\* C14: when the batch phase has finished, the failure set is exactly the set
\* of the eligible files the batch phase has not renamed (the files that did
\* not load, those of the batches that failed as a whole, those missing from a
\* mapping and those whose rename raised): no file the batch phase has renamed
\* is in it, and the list the recovery works on holds the same files.
C14_FailureSetIsTheUnrenamed ==
  \A w \in Threads :
    LET r == wk[w] IN
    r.pc \in AfterBatchPhase =>
      /\ Elements(r.failed_files_for_retry) =
           Elements(r.all_files) \ r.renamed_by_batch
      /\ Elements(r.failed_files_for_retry) \cap r.renamed_by_batch = {}
      /\ Elements(r.unique_failed_files) = Elements(r.failed_files_for_retry)
      /\ r.batch_processed_count = Cardinality(r.renamed_by_batch)

\* A batch phase has ended after a batch that failed as a whole and a batch
\* with a renamed file; a file is in the failure list twice.
C14_Witness ==
  \E w \in Threads :
    LET r == wk[w] IN
    /\ r.pc = "retry_check"
    /\ r.flow_started = {}
    /\ r.failed_batches # {}
    /\ r.renamed_by_batch # {}
    /\ Len(r.failed_files_for_retry) > Cardinality(Elements(r.failed_files_for_retry))

\* C15: the recovery flow is run exactly once for each distinct filename of
\* the failure set, however many times the filename was added to it, one file
\* at a time, and no flow starts before the last batch has been processed: a
\* flow starts only after the batch loop has ended, on a file of the failure
\* set no flow was started on; while a flow runs, it is the last one started;
\* at the summary a flow has been started on every file of the failure set.
C15_OneFlowPerFailedFile ==
  [][ \A w \in Threads :
        LET r == wk[w]
            q == wk'[w]
            started == { q.unique_failed_files[k] : k \in 1..q.i }
        IN
        q # r =>
          /\ r.pc = "retry_check" =>
               /\ r.unique_failed_files[r.i] \notin r.flow_started
               /\ r.unique_failed_files[r.i] \in Elements(r.failed_files_for_retry)
               /\ q.flow_started = r.flow_started \cup { r.unique_failed_files[r.i] }
               /\ r.file_index >= r.total_eligible_files
          /\ r.pc # "retry_check" => q.flow_started = r.flow_started
          /\ q.pc \in { "isolate", "open", "request", "retry_exists",
                        "retry_rename", "rollback" } =>
               /\ q.flow_file = q.unique_failed_files[q.i]
               /\ q.flow_started = started
               /\ Cardinality(q.flow_started) = q.i
          /\ q.pc \in { "summary", "done" } =>
               q.flow_started = Elements(q.failed_files_for_retry) ]_vars

\* A run has ended in which a filename was added to the failure list twice and
\* flows were started on two files.
C15_Witness ==
  \E w \in Threads :
    LET r == wk[w] IN
    /\ r.pc = "done"
    /\ Len(r.failed_files_for_retry) > Cardinality(Elements(r.failed_files_for_retry))
    /\ Cardinality(r.flow_started) = 2
    /\ Len(r.unique_failed_files) = 2

\* C16: when the isolating rename of retry_failed_file fails, the flow aborts
\* at once: no rollback rename is attempted, so the flow that has isolated no
\* file ends with neither report of a rollback, the "restored" line or the
\* FATAL line, and the directory is as it was.
C16_FailedIsolationAborts ==
  \A w \in Threads :
    wk[w].isolated = 0 => wk[w].report \notin { "restored", "fatal" }

\* A name built by retry_failed_file for the isolation.
IsTempName(name) ==
  /\ Len(name) >= Len(TEMP_PREFIX)
  /\ SubSeq(name, 1, Len(TEMP_PREFIX)) = TEMP_PREFIX

\* C17: the FATAL line is emitted when the rollback rename fails after a
\* successful isolation and in no other situation: when a flow has ended with
\* it, the flow had isolated its file, the file is in the directory under a
\* temporary name and not under its original name, and the retry loop has gone
\* on to the next failed file or to the summary.
C17_FatalOnlyAfterFailedRollback ==
  \A w \in Threads :
    LET r == wk[w] IN
    r.report = "fatal" =>
      /\ r.isolated # 0
      /\ \E n \in DOMAIN dir : dir[n] = r.isolated /\ IsTempName(n)
      /\ ~exists(dir, r.flow_file)
      /\ r.pc \in { "retry_check", "summary", "done" }

\* C18 as stated: no file is submitted to both a batch request and a
\* single-file recovery request in the same run: the file of a recovery
\* request was in no batch request.
C18_NeverInBothRequests ==
  [][ \A w \in Threads :
        (wk[w].pc = "request" /\ gemini_client # "None" /\ wk'[w] # wk[w]) =>
          wk[w].flow_file \notin wk[w].batch_submitted ]_vars

\* C18 as amended: every eligible file is sent in the requests of at most one
\* batch and in at most one recovery request, and is renamed by at most one of
\* the two flows; the recovery flow is started only on a file the batch phase
\* has not renamed, once, after the last batch request.
C18_AtMostOnceEachFlow ==
  [][ \A w \in Threads :
        LET r == wk[w]
            q == wk'[w]
        IN
        q # r =>
          /\ (r.pc = "batch_send" /\ gemini_client # "None") =>
               /\ r.flow_started = {}
               /\ r.retries = 0 => Elements(r.image_batch) \cap r.batch_submitted = {}
               /\ r.retries > 0 => Elements(r.image_batch) \subseteq r.batch_submitted
               /\ q.batch_submitted = r.batch_submitted \cup Elements(r.image_batch)
          /\ r.pc = "retry_check" =>
               /\ r.unique_failed_files[r.i] \notin r.flow_started
               /\ r.unique_failed_files[r.i] \notin r.renamed_by_batch
          /\ r.pc = "request" =>
               r.flow_file \notin r.renamed_by_batch \cup r.renamed_by_retry
          /\ q.renamed_by_batch \cap q.renamed_by_retry = {}
          /\ q.renamed_by_batch \subseteq q.batch_submitted
          /\ q.renamed_by_retry \subseteq q.flow_started ]_vars

\* A file that was sent in a batch request has been renamed by the recovery
\* flow.
C18_Witness ==
  \E w \in Threads :
    /\ wk[w].pc = "done"
    /\ wk[w].renamed_by_retry \cap wk[w].batch_submitted # {}

\* C19: with the delay enabled, the pause is taken after a batch if and only
\* if an eligible file remains after it: between every two consecutive batches
\* and never after the last one; with the delay disabled it is never taken.
\* The step that ends a batch (file_index grows by BATCH_SIZE) leads to the
\* pause exactly when the thread was started with the delay and file_index is
\* still below the number of eligible files, and the pause leads to the next
\* batch.
C19_PauseOnlyBetweenBatches ==
  [][ \A w \in Threads :
        LET r == wk[w]
            q == wk'[w]
        IN
        q # r =>
          /\ q.pc = "pause" =>
               /\ q.use_delay
               /\ q.file_index = r.file_index + BATCH_SIZE
               /\ q.file_index < q.total_eligible_files
          /\ (r.pc # "scan" /\ q.file_index # r.file_index) =>
               /\ q.file_index = r.file_index + BATCH_SIZE
               /\ (r.use_delay /\ q.file_index < r.total_eligible_files)
                    => q.pc = "pause"
               /\ ~r.use_delay => q.pc # "pause"
               /\ q.file_index >= r.total_eligible_files => q.pc # "pause"
          /\ r.pc = "pause" =>
               /\ q.pc = "load"
               /\ q.file_index = r.file_index ]_vars

\* The pause after the first of two batches, none of which has failed.
C19_Witness ==
  \E w \in Threads :
    /\ wk[w].pc = "pause"
    /\ wk[w].file_index = BATCH_SIZE
    /\ wk[w].total_eligible_files > BATCH_SIZE
    /\ wk[w].failed_batches = {}

\* A thread started with the delay disabled is in its second batch.
C19_NoDelayReached ==
  \E w \in Threads :
    ~wk[w].use_delay /\ wk[w].pc = "load" /\ wk[w].file_index = BATCH_SIZE

\* C20: a run only renames.  At every moment the directory holds as many files
\* as at scan time, the same files, and every file that was not eligible keeps
\* its name; at completion each eligible file is under exactly one name: its
\* original name, a name with the _DESC marker, or, when the recovery flow was
\* started on it and did not rename it, a temp_retry name.
C20_RunOnlyRenames ==
  /\ Cardinality(DOMAIN dir) = Cardinality(DOMAIN dir0)
  /\ Files(dir) = Files(dir0)
  /\ \A n \in DOMAIN dir0 :
       ~IsEligible(n) => exists(dir, n) /\ dir[n] = dir0[n]
  /\ \A w \in Threads :
       wk[w].pc = "done" =>
         \A n \in EligibleAtStart :
           LET names == { m \in DOMAIN dir : dir[m] = dir0[n] } IN
           /\ Cardinality(names) = 1
           /\ \A m \in names :
                \/ m = n
                \/ contains(m, PROCESSED_SUFFIX)
                \/ /\ IsTempName(m)
                   /\ n \in wk[w].flow_started \ wk[w].renamed_by_retry

\* C21: while a worker runs, the client it uses stays initialized: no
\* interleaving of update_client with the worker lets the worker pass its
\* "client is None" test and then issue a request on a None client, in the
\* batch flow or in the recovery flow, so no file fails in a run because the
\* client was changed during it.
C21_NoRequestOnNoneClient ==
  [][ \A w \in Threads :
        (wk[w].pc \in { "batch_send", "request" } /\ wk'[w] # wk[w]) =>
          gemini_client # "None" ]_vars

\* A name whose base before the _DESC marker is empty: _DESC.ext, _DESC_1.ext.
HasEmptyBase(name) ==
  /\ Len(name) >= Len(PROCESSED_SUFFIX)
  /\ SubSeq(name, 1, Len(PROCESSED_SUFFIX)) = PROCESSED_SUFFIX

\* C22: an empty sanitized title is handled by the caller in both flows: when
\* the title returned for a file is empty or sanitizes to the empty string,
\* the file is not renamed to a name whose base before the _DESC marker is
\* empty, so the run gives no file such a name.
C22_NoEmptyBaseName ==
  \A n \in DOMAIN dir : HasEmptyBase(n) => n \in DOMAIN dir0 /\ dir[n] = dir0[n]

====
